---- MODULE Spec2Model ----
(***************************************************************************)
(* Model of the crypto-checkout widget: the checkout page (Home) with its  *)
(* pay/receive amount handlers and convert button, and the recipient       *)
(* details page with its account verification and two-step form.           *)
(*                                                                         *)
(* Text typed into an amount field is a sequence of one-character strings  *)
(* so that parseFloat and toFixed are computed character by character.     *)
(* Time is counted in units of 100 ms: a timer registered by setTimeout    *)
(* carries the time left until it is due; timers that are due run in the   *)
(* order of their registration, and user events may happen at any moment.  *)
(***************************************************************************)
EXTENDS Integers, Sequences, FiniteSets, TLC

VARIABLES
    \* ---- Home (checkout page) ----
    payValue, receiveValue, isCalculating, isConverting,
    checkoutErrors, payFrom, payTo, payCurrency, receiveCurrency,
    \* ---- RecipientDetails page ----
    formType, selectedBank, accountNumber, accountName,
    email, country, phoneNumber, isProcessing, isVerifying, errors,
    lookupCompleted,
    \* the selected state of the bank Select component
    bankSelected,
    \* ---- runtime shared by the pages ----
    timers, routerCalls, mounted,
    \* ---- lib/utils: the last conversion call and its result ----
    conversion

homeVars == <<payValue, receiveValue, isCalculating, isConverting,
              checkoutErrors, payFrom, payTo, payCurrency, receiveCurrency>>

recipientVars == <<formType, selectedBank, accountNumber, accountName,
                   email, country, phoneNumber, isProcessing, isVerifying, errors,
                   lookupCompleted, bankSelected>>

vars == <<homeVars, recipientVars, timers, routerCalls, mounted, conversion>>

(***************************************************************************)
(* Bounds of the exploration.                                              *)
(***************************************************************************)
\* Largest number of setTimeout callbacks pending at once.
MaxPending == 2

(***************************************************************************)
(* Numbers.  A JavaScript number is modelled exactly as a signed rational  *)
(* or NaN: [nan, neg, num, den] stands for (-1)^neg * num / den.           *)
(***************************************************************************)
DigitChars == <<"0", "1", "2", "3", "4", "5", "6", "7", "8", "9">>

Digit == {DigitChars[i] : i \in 1..10}

DigitVal(c) == (CHOOSE i \in 1..10 : DigitChars[i] = c) - 1

RECURSIVE Pow10(_)
Pow10(n) == IF n = 0 THEN 1 ELSE 10 * Pow10(n - 1)

NaN == [nan |-> TRUE, neg |-> FALSE, num |-> 0, den |-> 1]

RECURSIVE DigitRunEnd(_, _)
\* Index just past the run of decimal digits of s that starts at i.
DigitRunEnd(s, i) ==
    IF i <= Len(s) /\ s[i] \in Digit THEN DigitRunEnd(s, i + 1) ELSE i

RECURSIVE SkipWhiteSpace(_, _)
SkipWhiteSpace(s, i) ==
    IF i <= Len(s) /\ s[i] = " " THEN SkipWhiteSpace(s, i + 1) ELSE i

RECURSIVE DigitsValue(_)
DigitsValue(ds) ==
    IF ds = <<>> THEN 0
    ELSE DigitsValue(SubSeq(ds, 1, Len(ds) - 1)) * 10 + DigitVal(ds[Len(ds)])

RECURSIVE GCD(_, _)
GCD(a, b) == IF b = 0 THEN a ELSE GCD(b, a % b)

\* The number (-1)^neg * num / den in lowest terms.
Number(neg, num, den) ==
    LET g == GCD(num, den)
    IN  [nan |-> FALSE, neg |-> neg, num |-> num \div g, den |-> den \div g]

\* The value of an expression, named once: The({F(v) : v \in {e}}) is F(e)
\* with e computed a single time.
The(S) == CHOOSE v \in S : TRUE

\* parseFloat: leading white space is skipped, then the longest prefix that
\* is a decimal literal (sign, digits, "." and digits) is read; anything
\* after it is ignored; NaN when that prefix holds no digit.  (Exponents and
\* "Infinity" are not part of the texts explored.)
parseFloat(text) ==
    The({LET start    == SkipWhiteSpace(s, 1)
             hasSign  == start <= Len(s) /\ s[start] \in {"-", "+"}
             negative == hasSign /\ s[start] = "-"
             intFrom  == IF hasSign THEN start + 1 ELSE start
             intEnd   == DigitRunEnd(s, intFrom)
             hasPoint == intEnd <= Len(s) /\ s[intEnd] = "."
             fracEnd  == IF hasPoint THEN DigitRunEnd(s, intEnd + 1) ELSE intEnd
             intDigs  == SubSeq(s, intFrom, intEnd - 1)
             fracDigs == IF hasPoint THEN SubSeq(s, intEnd + 1, fracEnd - 1) ELSE <<>>
         IN  IF intDigs = <<>> /\ fracDigs = <<>> THEN NaN
             ELSE Number(negative, DigitsValue(intDigs \o fracDigs), Pow10(Len(fracDigs))) :
         s \in {text}})

\* x * r for a rate r >= 0, and x / r for a rate r > 0.
Times(x, r) ==
    The({IF v.nan THEN NaN ELSE Number(v.neg, v.num * r.num, v.den * r.den) : v \in {x}})

DividedBy(x, r) ==
    The({IF v.nan THEN NaN ELSE Number(v.neg, v.num * r.den, v.den * r.num) : v \in {x}})

RECURSIVE NatToDigits(_)
NatToDigits(n) ==
    IF n < 10 THEN <<DigitChars[n + 1]>>
    ELSE NatToDigits(n \div 10) \o <<DigitChars[(n % 10) + 1]>>

RECURSIVE PadLeft(_, _)
PadLeft(ds, width) == IF Len(ds) >= width THEN ds ELSE PadLeft(<<"0">> \o ds, width)

RECURSIVE LongDivision(_, _, _)
\* The first d decimals of r / den (r < den) as a number, and the remainder.
LongDivision(r, den, d) ==
    IF d = 0 THEN <<0, r>>
    ELSE The({<<prev[1] * 10 + (prev[2] * 10) \div den, (prev[2] * 10) % den>> :
                 prev \in {LongDivision(r, den, d - 1)}})

\* The digits of the number v rounded to d decimals.
FixedDigits(v, d) ==
    The({LET rounded == IF 2 * cut[2] >= v.den THEN cut[1] + 1 ELSE cut[1]
             carry   == rounded = Pow10(d)
             whole   == v.num \div v.den
             sign    == IF v.neg /\ v.num > 0 THEN <<"-">> ELSE <<>>
         IN  sign \o NatToDigits(IF carry THEN whole + 1 ELSE whole) \o <<".">>
                  \o PadLeft(NatToDigits(IF carry THEN 0 ELSE rounded), d) :
         cut \in {LongDivision(v.num % v.den, v.den, d)}})

\* Number.prototype.toFixed(d): the sign is taken first, then the magnitude
\* is rounded to d decimals (the larger candidate on a tie) and printed with
\* exactly d decimals; NaN prints as "NaN".
toFixed(x, d) ==
    The({IF v.nan THEN <<"N", "a", "N">> ELSE FixedDigits(v, d) : v \in {x}})

Rate(n, d) == [num |-> n, den |-> d]

(***************************************************************************)
(* Static data.                                                            *)
(***************************************************************************)
CryptoCurrency == {"ETH", "BTC", "USDT"}

FiatCurrency == {"NGN", "USD", "EUR"}

\* EXCHANGE_RATES, keyed by <<from, to>>.
EXCHANGE_RATES ==
    [p \in CryptoCurrency \X FiatCurrency |->
        CASE p = <<"ETH", "NGN">>  -> Rate(3500000, 1)
          [] p = <<"BTC", "NGN">>  -> Rate(45000000, 1)
          [] p = <<"USDT", "NGN">> -> Rate(1600, 1)
          [] p = <<"ETH", "USD">>  -> Rate(2200, 1)
          [] p = <<"BTC", "USD">>  -> Rate(28000, 1)
          [] p = <<"USDT", "USD">> -> Rate(1, 1)
          [] p = <<"ETH", "EUR">>  -> Rate(2000, 1)
          [] p = <<"BTC", "EUR">>  -> Rate(25500, 1)
          [] p = <<"USDT", "EUR">> -> Rate(92, 100)]

\* The rate written into the two amount handlers of the page.
PageRate == Rate(3500, 1)

\* Delays of the simulated operations, in units of 100 ms.
CalcDelay == 3

ConvertDelay == 8

VerifyDelay == 6

StepDelay == 5

SubmitDelay == 8

\* Texts, written as sequences of characters.
Txt_1_00 == <<"1", ".", "0", "0">>

Txt_2 == <<"2">>

Txt_abc == <<"a", "b", "c">>

\* Texts a user types or pastes into an amount field in the explored runs.
AmountInputs == {Txt_2, <<>>, Txt_abc}

\* Currencies picked from the two currency dropdowns in the explored runs.
PayCurrencyPicks == {"ETH", "USDT"}

ReceiveCurrencyPicks == {"NGN", "EUR"}

\* Wallets offered by the two wallet selectors.
WalletOptions == {"Metamask", "Rainbow"}

NoCheckoutErrors == [payFrom |-> "", payTo |-> ""]

(***************************************************************************)
(* Timers.                                                                 *)
(***************************************************************************)
Timer(kind, value, delay) == [kind |-> kind, value |-> value, rem |-> delay]

\* setTimeout(callback, delay)
setTimeout(kind, value, delay) == Append(timers, Timer(kind, value, delay))

Due == {i \in 1..Len(timers) : timers[i].rem = 0}

\* The due timer that runs next: the one registered first.
FirstDue == CHOOSE i \in Due : \A j \in Due : i <= j

RemoveAt(s, i) == SubSeq(s, 1, i - 1) \o SubSeq(s, i + 1, Len(s))

CanSchedule == Len(timers) < MaxPending

\* Time passes: 100 ms go by while no timer is due.
Tick ==
    /\ timers # <<>>
    /\ Due = {}
    /\ timers' = [i \in 1..Len(timers) |-> [timers[i] EXCEPT !.rem = @ - 1]]
    /\ UNCHANGED <<homeVars, recipientVars, routerCalls, mounted>>
    /\ UNCHANGED conversion

(***************************************************************************)
(* lib/utils: conversions by the rate table.                               *)
(***************************************************************************)
\* Variant of RateOrDefault whose fallback is always 1.
RateOrDefault_FallbackOne(fromCurrency, toCurrency, fallback) ==
    IF <<fromCurrency, toCurrency>> \in DOMAIN EXCHANGE_RATES
    THEN EXCHANGE_RATES[<<fromCurrency, toCurrency>>]
    ELSE Rate(1, 1)

\* EXCHANGE_RATES[key] || fallback
RateOrDefault(fromCurrency, toCurrency, fallback) ==
    IF <<fromCurrency, toCurrency>> \in DOMAIN EXCHANGE_RATES
    THEN EXCHANGE_RATES[<<fromCurrency, toCurrency>>]
    ELSE fallback

calculateExchangeRate(amount, fromCurrency, toCurrency) ==
    toFixed(Times(amount, RateOrDefault(fromCurrency, toCurrency, Rate(0, 1))), 2)

calculateInverseRate(amount, fromCurrency, toCurrency) ==
    toFixed(DividedBy(amount, RateOrDefault(fromCurrency, toCurrency, Rate(1, 1))), 4)

\* Amounts passed to the two conversions in the explored calls.
Txt_0 == <<"0">>

Txt_1 == <<"1">>

Txt_7 == <<"7">>

Txt_0_5 == <<"0", ".", "5">>

Txt_minus_1_5 == <<"-", "1", ".", "5">>

AmountArgs == {parseFloat(t) : t \in {Txt_0, Txt_1, Txt_2, Txt_7, Txt_0_5, Txt_minus_1_5}}

\* Currency arguments: the currencies of the rate table and one outside it
\* on each side.
FromCurrencyArgs == CryptoCurrency \cup {"DOGE"}

ToCurrencyArgs == FiatCurrency \cup {"GBP"}

\* No conversion requested.
NoConversion ==
    [fn |-> "none", amount |-> parseFloat(Txt_0), fromCurrency |-> "",
     toCurrency |-> "", result |-> <<>>]

\* The arguments of a conversion that has not been called yet.
ConversionArgs ==
    {[fn |-> "none", amount |-> a, fromCurrency |-> f, toCurrency |-> t,
      result |-> <<>>] :
        a \in AmountArgs, f \in FromCurrencyArgs, t \in ToCurrencyArgs}

\* A call of calculateExchangeRate on the arguments held in conversion.
CallExchangeRate ==
    /\ conversion' =
          [conversion EXCEPT
              !.fn = "calculateExchangeRate",
              !.result = calculateExchangeRate(conversion.amount,
                             conversion.fromCurrency, conversion.toCurrency)]
    /\ UNCHANGED <<homeVars, recipientVars, timers, routerCalls, mounted>>

\* A call of calculateInverseRate on the arguments held in conversion.
CallInverseRate ==
    /\ conversion' =
          [conversion EXCEPT
              !.fn = "calculateInverseRate",
              !.result = calculateInverseRate(conversion.amount,
                             conversion.fromCurrency, conversion.toCurrency)]
    /\ UNCHANGED <<homeVars, recipientVars, timers, routerCalls, mounted>>

(***************************************************************************)
(* Home: the checkout page.                                                *)
(***************************************************************************)
HomeMounted == mounted = "home"

\* newValue || "0"
OrZero(newValue) == IF newValue = <<>> THEN <<"0">> ELSE newValue

\* The value the pay handler's callback computes for the receive field.
PayCallbackValue(newValue) == toFixed(Times(parseFloat(OrZero(newValue)), PageRate), 2)

\* The value the receive handler's callback computes for the pay field.
ReceiveCallbackValue(newValue) == toFixed(DividedBy(parseFloat(OrZero(newValue)), PageRate), 4)

handlePayValueChange(newValue) ==
    /\ HomeMounted
    /\ newValue # payValue
    /\ CanSchedule
    /\ payValue' = newValue
    /\ isCalculating' = TRUE
    /\ timers' = setTimeout("payCalc", newValue, CalcDelay)
    /\ UNCHANGED <<receiveValue, isConverting, checkoutErrors, payFrom, payTo,
                   payCurrency, receiveCurrency, recipientVars, routerCalls, mounted>>
    /\ UNCHANGED conversion

handleReceiveValueChange(newValue) ==
    /\ HomeMounted
    /\ newValue # receiveValue
    /\ CanSchedule
    /\ receiveValue' = newValue
    /\ isCalculating' = TRUE
    /\ timers' = setTimeout("receiveCalc", newValue, CalcDelay)
    /\ UNCHANGED <<payValue, isConverting, checkoutErrors, payFrom, payTo,
                   payCurrency, receiveCurrency, recipientVars, routerCalls, mounted>>
    /\ UNCHANGED conversion

\* Variant of setPayCurrency that also starts a recompute of the receive
\* amount.
setPayCurrency_Recalculates(currency) ==
    /\ HomeMounted
    /\ currency # payCurrency
    /\ payCurrency' = currency
    /\ CanSchedule
    /\ isCalculating' = TRUE
    /\ timers' = setTimeout("payCalc", payValue, CalcDelay)
    /\ UNCHANGED <<payValue, receiveValue, isConverting, checkoutErrors,
                   payFrom, payTo, receiveCurrency, recipientVars,
                   routerCalls, mounted>>
    /\ UNCHANGED conversion

setPayCurrency(currency) ==
    /\ HomeMounted
    /\ currency # payCurrency
    /\ payCurrency' = currency
    /\ UNCHANGED <<payValue, receiveValue, isCalculating, isConverting, checkoutErrors,
                   payFrom, payTo, receiveCurrency, recipientVars, timers,
                   routerCalls, mounted>>
    /\ UNCHANGED conversion

setReceiveCurrency(currency) ==
    /\ HomeMounted
    /\ currency # receiveCurrency
    /\ receiveCurrency' = currency
    /\ UNCHANGED <<payValue, receiveValue, isCalculating, isConverting, checkoutErrors,
                   payFrom, payTo, payCurrency, recipientVars, timers,
                   routerCalls, mounted>>
    /\ UNCHANGED conversion

\* onChange of the "Pay from" selector.
onPayFromChange(val) ==
    /\ HomeMounted
    /\ payFrom' = val
    /\ checkoutErrors' = [checkoutErrors EXCEPT !.payFrom = ""]
    /\ UNCHANGED <<payValue, receiveValue, isCalculating, isConverting, payTo,
                   payCurrency, receiveCurrency, recipientVars, timers,
                   routerCalls, mounted>>
    /\ UNCHANGED conversion

\* onChange of the "Pay to" selector.
onPayToChange(val) ==
    /\ HomeMounted
    /\ payTo' = val
    /\ checkoutErrors' = [checkoutErrors EXCEPT !.payTo = ""]
    /\ UNCHANGED <<payValue, receiveValue, isCalculating, isConverting, payFrom,
                   payCurrency, receiveCurrency, recipientVars, timers,
                   routerCalls, mounted>>
    /\ UNCHANGED conversion

\* Variant of validateForm that flags the "pay to" wallet whenever it flags
\* the "pay from" wallet.
validateForm_FlagsBoth ==
    [payFrom |-> IF payFrom = "" THEN "Please select a wallet to pay from" ELSE "",
     payTo   |-> IF payFrom = "" \/ payTo = ""
                 THEN "Please select a wallet to pay to" ELSE ""]

\* The errors validateForm computes.
validateForm ==
    [payFrom |-> IF payFrom = "" THEN "Please select a wallet to pay from" ELSE "",
     payTo   |-> IF payTo = "" THEN "Please select a wallet to pay to" ELSE ""]

\* Variant of ConvertDisabled for a button that is never disabled.
ConvertDisabled_Never == FALSE

\* Convert button: disabled and loading props, and Button's
\* isDisabled = disabled || loading.
ConvertDisabled ==
    LET disabled == isConverting
        loading  == isConverting
    IN  disabled \/ loading

\* A click on the convert button.
handleConvert ==
    /\ HomeMounted
    /\ ~ConvertDisabled
    /\ checkoutErrors' = validateForm
    /\ IF validateForm = NoCheckoutErrors
       THEN /\ CanSchedule
            /\ isConverting' = TRUE
            /\ timers' = setTimeout("convert", <<>>, ConvertDelay)
       ELSE UNCHANGED <<isConverting, timers>>
    /\ UNCHANGED <<payValue, receiveValue, isCalculating, payFrom, payTo,
                   payCurrency, receiveCurrency, recipientVars, routerCalls, mounted>>
    /\ UNCHANGED conversion

\* The callback of handlePayValueChange runs.
PayCalcDone ==
    /\ Due # {}
    /\ timers[FirstDue].kind = "payCalc"
    /\ timers' = RemoveAt(timers, FirstDue)
    /\ IF HomeMounted
       THEN /\ receiveValue' = PayCallbackValue(timers[FirstDue].value)
            /\ isCalculating' = FALSE
       ELSE UNCHANGED <<receiveValue, isCalculating>>
    /\ UNCHANGED <<payValue, isConverting, checkoutErrors, payFrom, payTo,
                   payCurrency, receiveCurrency, recipientVars, routerCalls, mounted>>
    /\ UNCHANGED conversion

\* The callback of handleReceiveValueChange runs.
ReceiveCalcDone ==
    /\ Due # {}
    /\ timers[FirstDue].kind = "receiveCalc"
    /\ timers' = RemoveAt(timers, FirstDue)
    /\ IF HomeMounted
       THEN /\ payValue' = ReceiveCallbackValue(timers[FirstDue].value)
            /\ isCalculating' = FALSE
       ELSE UNCHANGED <<payValue, isCalculating>>
    /\ UNCHANGED <<receiveValue, isConverting, checkoutErrors, payFrom, payTo,
                   payCurrency, receiveCurrency, recipientVars, routerCalls, mounted>>
    /\ UNCHANGED conversion

\* The callback of handleConvert runs: router.push leaves the page.
ConvertDone ==
    /\ Due # {}
    /\ timers[FirstDue].kind = "convert"
    /\ timers' = RemoveAt(timers, FirstDue)
    /\ routerCalls' = Append(routerCalls, "/recipient-details")
    /\ mounted' = "none"
    /\ UNCHANGED <<homeVars, recipientVars>>
    /\ UNCHANGED conversion

(***************************************************************************)
(* RecipientDetails: the two-step recipient form.                          *)
(***************************************************************************)
RecipientMounted == mounted = "recipient"

CannedAccountName == "ODUTUGA GBEKE"

BankOptions == {"GTBank", "UBA"}

\* Values a user types or pastes into the account number field.
AccountInputs == {"", "123456789", "1234567890", "0987654321", "12345678901"}

Txt_email_ok == <<"a", "@", "b", ".", "c">>

Txt_email_bad == <<"a", "@", "b">>

\* Texts typed into the recipient email field.
EmailInputs == {Txt_email_ok, Txt_email_bad}

Txt_phone_7 == <<"8", "0", "1", "2", "3", "4", "5">>

Txt_phone_6 == <<"8", "0", "1", "2", "3", "4">>

\* Seven characters, six of them digits.
Txt_phone_dashed == <<"8", "0", "1", "-", "2", "3", "4">>

\* Texts typed into the phone number field.
PhoneInputs == {Txt_phone_7, Txt_phone_6, Txt_phone_dashed}

\* isValidPhone of utils.ts: the non-digits are removed, and 7 to 15 digits
\* must remain.
isValidPhone(phone) ==
    LET digitsOnly == SelectSeq(phone, LAMBDA c : c \in Digit)
    IN  Len(digitsOnly) >= 7 /\ Len(digitsOnly) <= 15

\* Entries of the countries list offered by the phone input.
Countries == {"countries[0]", "countries[1]"}

NoErrors == [bank |-> "", accountNumber |-> "", email |-> "", phoneNumber |-> ""]

\* /^[^\s@]+@[^\s@]+\.[^\s@]+$/.test(s)
EmailPatternTest(s) ==
    \E at \in 1..Len(s) : \E dot \in 1..Len(s) :
        /\ s[at] = "@"
        /\ s[dot] = "."
        /\ 1 < at
        /\ at + 1 < dot
        /\ dot < Len(s)
        /\ \A i \in (1..Len(s)) \ {at} : s[i] \notin {" ", "@"}

\* Variant of handleAccountNumberChange that also looks up longer numbers.
handleAccountNumberChange_AtLeastTen(value) ==
    /\ RecipientMounted
    /\ formType = "bank"
    /\ value # accountNumber
    /\ accountNumber' = value
    /\ errors' = [errors EXCEPT !.accountNumber = ""]
    /\ IF Len(value) >= 10
       THEN /\ CanSchedule
            /\ isVerifying' = TRUE
            /\ accountName' = ""
            /\ timers' = setTimeout("verify", <<>>, VerifyDelay)
       ELSE /\ accountName' = ""
            /\ UNCHANGED <<isVerifying, timers>>
    /\ UNCHANGED <<formType, selectedBank, email, phoneNumber, isProcessing,
                   lookupCompleted, homeVars, routerCalls, mounted>>
    /\ UNCHANGED <<country, bankSelected, conversion>>

handleAccountNumberChange(value) ==
    /\ RecipientMounted
    /\ formType = "bank"
    /\ value # accountNumber
    /\ accountNumber' = value
    /\ errors' = [errors EXCEPT !.accountNumber = ""]
    /\ IF Len(value) = 10
       THEN /\ CanSchedule
            /\ isVerifying' = TRUE
            /\ accountName' = ""
            /\ timers' = setTimeout("verify", <<>>, VerifyDelay)
       ELSE /\ accountName' = ""
            /\ UNCHANGED <<isVerifying, timers>>
    /\ UNCHANGED <<formType, selectedBank, email, phoneNumber, isProcessing,
                   lookupCompleted, homeVars, routerCalls, mounted>>
    /\ UNCHANGED <<country, bankSelected, conversion>>

\* Variant of VerifyDone whose lookup returns without a name.
VerifyDone_NoName ==
    /\ Due # {}
    /\ timers[FirstDue].kind = "verify"
    /\ timers' = RemoveAt(timers, FirstDue)
    /\ IF RecipientMounted
       THEN /\ UNCHANGED accountName
            /\ isVerifying' = FALSE
            /\ lookupCompleted' = TRUE
       ELSE UNCHANGED <<accountName, isVerifying, lookupCompleted>>
    /\ UNCHANGED <<formType, selectedBank, accountNumber, email, phoneNumber,
                   isProcessing, errors, homeVars, routerCalls, mounted>>
    /\ UNCHANGED <<country, bankSelected, conversion>>

\* The callback of the simulated account lookup runs.
VerifyDone ==
    /\ Due # {}
    /\ timers[FirstDue].kind = "verify"
    /\ timers' = RemoveAt(timers, FirstDue)
    /\ IF RecipientMounted
       THEN /\ accountName' = CannedAccountName
            /\ isVerifying' = FALSE
            /\ lookupCompleted' = TRUE
       ELSE UNCHANGED <<accountName, isVerifying, lookupCompleted>>
    /\ UNCHANGED <<formType, selectedBank, accountNumber, email, phoneNumber,
                   isProcessing, errors, homeVars, routerCalls, mounted>>
    /\ UNCHANGED <<country, bankSelected, conversion>>

\* Variant of onBankChange that clears the errors of all fields.
onBankChange_ClearsAll(val) ==
    /\ RecipientMounted
    /\ formType = "bank"
    /\ selectedBank' = val
    /\ errors' = NoErrors
    /\ UNCHANGED <<formType, accountNumber, accountName, email, phoneNumber,
                   isProcessing, isVerifying, lookupCompleted, homeVars, timers,
                   routerCalls, mounted>>
    /\ bankSelected' = val
    /\ UNCHANGED <<country, conversion>>

\* onChange of the bank selector.
onBankChange(val) ==
    /\ RecipientMounted
    /\ formType = "bank"
    /\ selectedBank' = val
    /\ errors' = [errors EXCEPT !.bank = ""]
    /\ UNCHANGED <<formType, accountNumber, accountName, email, phoneNumber,
                   isProcessing, isVerifying, lookupCompleted, homeVars, timers,
                   routerCalls, mounted>>
    /\ bankSelected' = val
    /\ UNCHANGED <<country, conversion>>

\* onChange of the recipient email field.
onEmailChange(value) ==
    /\ RecipientMounted
    /\ formType = "email"
    /\ value # email
    /\ email' = value
    /\ errors' = [errors EXCEPT !.email = ""]
    /\ UNCHANGED <<formType, selectedBank, accountNumber, accountName, phoneNumber,
                   isProcessing, isVerifying, lookupCompleted, homeVars, timers,
                   routerCalls, mounted>>
    /\ UNCHANGED <<country, bankSelected, conversion>>

\* onChangeCountry of the phone input.
setCountry(value) ==
    /\ RecipientMounted
    /\ formType = "email"
    /\ value # country
    /\ country' = value
    /\ UNCHANGED <<formType, selectedBank, accountNumber, accountName, email,
                   phoneNumber, isProcessing, isVerifying, errors, lookupCompleted,
                   bankSelected, homeVars, timers, routerCalls, mounted, conversion>>

\* onChangeNumber of the phone input.
onChangeNumber(value) ==
    /\ RecipientMounted
    /\ formType = "email"
    /\ value # phoneNumber
    /\ phoneNumber' = value
    /\ errors' = [errors EXCEPT !.phoneNumber = ""]
    /\ UNCHANGED <<formType, selectedBank, accountNumber, accountName, email,
                   isProcessing, isVerifying, lookupCompleted, homeVars, timers,
                   routerCalls, mounted>>
    /\ UNCHANGED <<country, bankSelected, conversion>>

\* Variant of validateBankForm that never checks the bank selection.
validateBankForm_NoBankCheck ==
    [NoErrors EXCEPT
        !.accountNumber =
            IF accountNumber = "" THEN "Account number is required"
            ELSE IF Len(accountNumber) < 10
                 THEN "Account number must be at least 10 digits"
                 ELSE ""]

\* The errors validateBankForm computes.
validateBankForm ==
    [NoErrors EXCEPT
        !.bank = IF selectedBank = "" THEN "Please select a bank" ELSE "",
        !.accountNumber =
            IF accountNumber = "" THEN "Account number is required"
            ELSE IF Len(accountNumber) < 10
                 THEN "Account number must be at least 10 digits"
                 ELSE ""]

\* The errors validateEmailForm computes.
validateEmailForm ==
    [NoErrors EXCEPT
        !.email = IF email = <<>> THEN "Email is required"
                  ELSE IF ~EmailPatternTest(email) THEN "Please enter a valid email"
                       ELSE "",
        !.phoneNumber =
            IF phoneNumber = <<>> THEN "Phone number is required"
            ELSE IF Len(phoneNumber) < 7 THEN "Please enter a valid phone number"
                 ELSE ""]

\* Variant of NextDisabled whose disabled prop forgets the verification gate.
NextDisabled_NoVerifyGate ==
    LET disabled == isProcessing
        loading  == isProcessing
    IN  disabled \/ loading

\* Variant of NextDisabled that ignores isProcessing.
NextDisabled_NotWhileProcessing ==
    LET disabled == formType = "bank" /\ isVerifying
        loading  == FALSE
    IN  disabled \/ loading

\* Next button: disabled prop, and Button's isDisabled = disabled || loading.
NextDisabled ==
    LET disabled == isProcessing \/ (formType = "bank" /\ isVerifying)
        loading  == isProcessing
    IN  disabled \/ loading

\* A click on the Next button.
handleNext ==
    /\ RecipientMounted
    /\ ~NextDisabled
    /\ IF formType = "bank"
       THEN /\ errors' = validateBankForm
            /\ IF validateBankForm = NoErrors
               THEN /\ CanSchedule
                    /\ isProcessing' = TRUE
                    /\ timers' = setTimeout("toEmail", <<>>, StepDelay)
               ELSE UNCHANGED <<isProcessing, timers>>
       ELSE /\ errors' = validateEmailForm
            /\ IF validateEmailForm = NoErrors
               THEN /\ CanSchedule
                    /\ isProcessing' = TRUE
                    /\ timers' = setTimeout("submit", <<>>, SubmitDelay)
               ELSE UNCHANGED <<isProcessing, timers>>
    /\ UNCHANGED <<formType, selectedBank, accountNumber, accountName, email,
                   phoneNumber, isVerifying, lookupCompleted, homeVars,
                   routerCalls, mounted>>
    /\ UNCHANGED <<country, bankSelected, conversion>>

\* Variant of StepDone that leaves isProcessing set.
StepDone_KeepsProcessing ==
    /\ Due # {}
    /\ timers[FirstDue].kind = "toEmail"
    /\ timers' = RemoveAt(timers, FirstDue)
    /\ IF RecipientMounted
       THEN /\ formType' = "email"
            /\ errors' = NoErrors
            /\ UNCHANGED isProcessing
       ELSE UNCHANGED <<formType, errors, isProcessing>>
    /\ UNCHANGED <<selectedBank, accountNumber, accountName, email, phoneNumber,
                   isVerifying, lookupCompleted, homeVars, routerCalls, mounted>>
    /\ UNCHANGED <<country, bankSelected, conversion>>

\* The callback of the bank branch of handleNext runs.
StepDone ==
    /\ Due # {}
    /\ timers[FirstDue].kind = "toEmail"
    /\ timers' = RemoveAt(timers, FirstDue)
    /\ IF RecipientMounted
       THEN /\ formType' = "email"
            /\ errors' = NoErrors
            /\ isProcessing' = FALSE
       ELSE UNCHANGED <<formType, errors, isProcessing>>
    /\ UNCHANGED <<selectedBank, accountNumber, accountName, email, phoneNumber,
                   isVerifying, lookupCompleted, homeVars, routerCalls, mounted>>
    /\ UNCHANGED <<country, bankSelected, conversion>>

\* The callback of the email branch of handleNext runs: router.push.
SubmitDone ==
    /\ Due # {}
    /\ timers[FirstDue].kind = "submit"
    /\ timers' = RemoveAt(timers, FirstDue)
    /\ routerCalls' = Append(routerCalls, "/payment")
    /\ mounted' = "none"
    /\ UNCHANGED <<homeVars, recipientVars>>
    /\ UNCHANGED conversion

\* Variant of BackClick that empties the email field when it leaves the
\* contact step.
BackClick_ResetsContact ==
    /\ RecipientMounted
    /\ IF formType = "email"
       THEN /\ formType' = "bank"
            /\ UNCHANGED <<routerCalls, mounted>>
       ELSE /\ routerCalls' = Append(routerCalls, "back")
            /\ mounted' = "none"
            /\ UNCHANGED formType
    /\ email' = IF formType = "email" THEN <<>> ELSE email
    /\ UNCHANGED <<selectedBank, accountNumber, accountName, phoneNumber,
                   isProcessing, isVerifying, errors, lookupCompleted, homeVars,
                   timers>>
    /\ bankSelected' = IF formType = "email" THEN "" ELSE bankSelected
    /\ UNCHANGED <<country, conversion>>

\* A click on the back button in the header.
BackClick ==
    /\ RecipientMounted
    /\ IF formType = "email"
       THEN /\ formType' = "bank"
            /\ UNCHANGED <<routerCalls, mounted>>
       ELSE /\ routerCalls' = Append(routerCalls, "back")
            /\ mounted' = "none"
            /\ UNCHANGED formType
    /\ UNCHANGED <<selectedBank, accountNumber, accountName, email, phoneNumber,
                   isProcessing, isVerifying, errors, lookupCompleted, homeVars,
                   timers>>
    /\ bankSelected' = IF formType = "email" THEN "" ELSE bankSelected
    /\ UNCHANGED <<country, conversion>>

(***************************************************************************)
(* The two pages as state machines.                                        *)
(***************************************************************************)
InitState ==
    /\ payValue = Txt_1_00
    /\ receiveValue = Txt_1_00
    /\ isCalculating = FALSE
    /\ isConverting = FALSE
    /\ checkoutErrors = NoCheckoutErrors
    /\ payFrom = ""
    /\ payTo = ""
    /\ payCurrency = "ETH"
    /\ receiveCurrency = "NGN"
    /\ formType = "bank"
    /\ selectedBank = ""
    /\ accountNumber = ""
    /\ accountName = CannedAccountName
    /\ email = <<>>
    /\ phoneNumber = <<>>
    /\ isProcessing = FALSE
    /\ isVerifying = FALSE
    /\ errors = NoErrors
    /\ lookupCompleted = FALSE
    /\ country = "countries[0]"
    /\ bankSelected = ""
    /\ timers = <<>>
    /\ routerCalls = <<>>

InitHome == InitState /\ mounted = "home" /\ conversion = NoConversion

InitRecipient == InitState /\ mounted = "recipient" /\ conversion = NoConversion

\* lib/utils on its own: no page is mounted, the arguments are drawn.
InitUtils == InitState /\ mounted = "none" /\ conversion \in ConversionArgs

NextHome ==
    \/ \E v \in AmountInputs : handlePayValueChange(v)
    \/ \E v \in AmountInputs : handleReceiveValueChange(v)
    \/ \E c \in PayCurrencyPicks : setPayCurrency(c)
    \/ \E c \in ReceiveCurrencyPicks : setReceiveCurrency(c)
    \/ \E w \in WalletOptions : onPayFromChange(w)
    \/ \E w \in WalletOptions : onPayToChange(w)
    \/ handleConvert
    \/ PayCalcDone
    \/ ReceiveCalcDone
    \/ ConvertDone
    \/ Tick

NextRecipient ==
    \/ \E v \in AccountInputs : handleAccountNumberChange(v)
    \/ \E b \in BankOptions : onBankChange(b)
    \/ \E v \in EmailInputs : onEmailChange(v)
    \/ \E c \in Countries : setCountry(c)
    \/ \E v \in PhoneInputs : onChangeNumber(v)
    \/ handleNext
    \/ BackClick
    \/ VerifyDone
    \/ StepDone
    \/ SubmitDone
    \/ Tick

SpecHome == InitHome /\ [][NextHome]_vars

SpecRecipient == InitRecipient /\ [][NextRecipient]_vars

NextUtils ==
    \/ CallExchangeRate
    \/ CallInverseRate

SpecUtils == InitUtils /\ [][NextUtils]_vars

\* Either page, whichever is opened.
SpecPages == (InitHome \/ InitRecipient) /\ [][NextHome \/ NextRecipient]_vars

\* The pages under a runtime whose clock advances and whose due setTimeout
\* callbacks are eventually run.
SpecHomeFair ==
    /\ SpecHome
    /\ WF_vars(Tick)
    /\ WF_vars(PayCalcDone)
    /\ WF_vars(ReceiveCalcDone)
    /\ WF_vars(ConvertDone)

SpecRecipientFair ==
    /\ SpecRecipient
    /\ WF_vars(Tick)
    /\ WF_vars(VerifyDone)
    /\ WF_vars(StepDone)
    /\ WF_vars(SubmitDone)

(***************************************************************************)
(* Properties of the checkout page.                                        *)
(***************************************************************************)

\* C1: last edit wins on the pay field.  When the callback of a pay edit
\* runs while a later pay edit (converting to a different value) is still
\* pending, it writes nothing into receiveValue.
C1_LastPayEditWins ==
    [][\A i \in 1..Len(timers) :
          ( /\ HomeMounted
            /\ timers[i].kind = "payCalc"
            /\ \E j \in (i + 1)..Len(timers) :
                  /\ timers[j].kind = "payCalc"
                  /\ PayCallbackValue(timers[j].value) # PayCallbackValue(timers[i].value)
            /\ Due # {} /\ FirstDue = i
            /\ timers' = RemoveAt(timers, i) )
          => receiveValue' = receiveValue]_vars

\* C2: cross-field supersession.  When the callback of a pay edit runs while
\* a later receive edit is still pending, receiveValue keeps the text the
\* user typed: the earlier recompute does not overwrite it.
C2_ReceiveEditSupersedesPayRecompute ==
    [][\A i \in 1..Len(timers) :
          ( /\ HomeMounted
            /\ timers[i].kind = "payCalc"
            /\ \E j \in (i + 1)..Len(timers) :
                  timers[j].kind = "receiveCalc" /\ timers[j].value = receiveValue
            /\ Due # {} /\ FirstDue = i
            /\ timers' = RemoveAt(timers, i) )
          => receiveValue' = receiveValue]_vars

\* C3: whenever no recalculation is pending (the initial state included),
\* the two amounts agree by the table rate of the selected pair: receiveValue
\* is payValue converted to 2 decimals, or payValue is receiveValue converted
\* back to 4 decimals.
C3_AmountsConsistentWhenIdle ==
    ( /\ HomeMounted
      /\ \A i \in 1..Len(timers) : timers[i].kind \notin {"payCalc", "receiveCalc"} )
    => \/ receiveValue = calculateExchangeRate(parseFloat(payValue), payCurrency, receiveCurrency)
       \/ payValue = calculateInverseRate(parseFloat(receiveValue), payCurrency, receiveCurrency)

\* C4: when the recompute of a pay edit with a valid decimal v completes and
\* no other edit intervened, receiveValue is v times the table rate of the
\* selected pair, to 2 decimals.
C4_PayEditUsesTableRate ==
    [][( /\ HomeMounted
         /\ Due # {} /\ timers[FirstDue].kind = "payCalc"
         /\ timers' = RemoveAt(timers, FirstDue)
         /\ \A j \in 1..Len(timers) :
               timers[j].kind \in {"payCalc", "receiveCalc"} => j = FirstDue
         /\ payValue = timers[FirstDue].value
         /\ ~parseFloat(payValue).nan )
       => receiveValue' =
             calculateExchangeRate(parseFloat(payValue), payCurrency, receiveCurrency)]_vars

\* C5: isCalculating is true exactly while some amount recompute is pending.
C5_CalculatingIffRecomputePending ==
    HomeMounted =>
        (isCalculating <=>
            \E i \in 1..Len(timers) : timers[i].kind \in {"payCalc", "receiveCalc"})

(***************************************************************************)
(* Properties of the recipient details page.                               *)
(***************************************************************************)

\* C6: a stale verification is never committed.  An edit that leaves the
\* account number with a length other than 10 empties accountName, and while
\* the length is not 10 and the number is not edited accountName stays empty.
C6_StaleVerificationNotCommitted ==
    [][/\ (accountNumber' # accountNumber /\ Len(accountNumber') # 10)
            => accountName' = ""
       /\ ( /\ RecipientMounted
            /\ Len(accountNumber) # 10
            /\ accountName = ""
            /\ accountNumber' = accountNumber )
            => accountName' = ""]_vars

\* C7: only the latest verification commits.  The callback of a lookup that
\* runs while a later lookup is pending changes neither accountName nor
\* isVerifying, and on the bank step the Next button is disabled as long as
\* a lookup is pending.
C7_OnlyLatestVerificationCommits ==
    /\ [][\A i \in 1..Len(timers) :
             ( /\ RecipientMounted
               /\ timers[i].kind = "verify"
               /\ \E j \in (i + 1)..Len(timers) : timers[j].kind = "verify"
               /\ Due # {} /\ FirstDue = i
               /\ timers' = RemoveAt(timers, i) )
             => /\ accountName' = accountName
                /\ isVerifying' = isVerifying]_vars
    /\ []( ( /\ RecipientMounted
             /\ formType = "bank"
             /\ \E i \in 1..Len(timers) : timers[i].kind = "verify" )
           => NextDisabled )

\* C8: accountName is non-empty only after a verification lookup has
\* completed since the page was entered.
C8_AccountNameOnlyFromVerification ==
    accountName # "" => lookupCompleted

\* C9: isVerifying and isProcessing are never true together.
C9_VerifyingExcludesProcessing ==
    ~(isVerifying /\ isProcessing)

\* C10: while isProcessing is true, and while isVerifying is true on the bank
\* step, the Next button is dead: no step from such a state populates an
\* error, starts processing or schedules a step or submission timer.
C10_DisabledNextDoesNothing ==
    [][( /\ RecipientMounted
         /\ isProcessing \/ (formType = "bank" /\ isVerifying) )
       => /\ \A f \in DOMAIN errors : errors'[f] # "" => errors'[f] = errors[f]
          /\ isProcessing' => isProcessing
          /\ ~( /\ Len(timers') > Len(timers)
                /\ timers'[Len(timers')].kind \in {"toEmail", "submit"} )]_vars

\* C10 witness: lookup pending on the bank step with a form that would pass
\* validation, so only the disabled button keeps a click from advancing.
C10_Witness ==
    /\ RecipientMounted
    /\ formType = "bank"
    /\ isVerifying
    /\ ~isProcessing
    /\ validateBankForm = NoErrors
    /\ CanSchedule


\* C11: a click on Next on the bank step with no bank selected and an empty
\* account number sets errors.bank and errors.accountNumber and does nothing
\* else: the step stays bank, isProcessing stays false, no timer is scheduled
\* and no field changes.
C11_EmptyBankFormIsRejected ==
    [][( /\ handleNext
         /\ formType = "bank"
         /\ selectedBank = ""
         /\ accountNumber = "" )
       => /\ errors'.bank # ""
          /\ errors'.accountNumber # ""
          /\ formType' = "bank"
          /\ isProcessing' = FALSE
          /\ timers' = timers
          /\ UNCHANGED <<selectedBank, accountNumber, accountName, email,
                         phoneNumber, isVerifying, routerCalls, mounted>>]_vars

\* C11 witness: both errors shown on the bank step of the still empty form.
C11_Witness ==
    /\ RecipientMounted
    /\ formType = "bank"
    /\ selectedBank = ""
    /\ accountNumber = ""
    /\ errors.bank # ""
    /\ errors.accountNumber # ""
    /\ ~isProcessing
    /\ timers = <<>>

\* C12: a click on Next on the bank step with a bank selected and a 10-digit
\* account number sets isProcessing at once and schedules the transition;
\* when that timer's callback runs on the mounted page the step is email,
\* errors are empty and isProcessing is false; and the step changes from bank
\* to email in no other way.
C12_ValidBankFormAdvances ==
    /\ [][( /\ handleNext
            /\ formType = "bank"
            /\ selectedBank # ""
            /\ Len(accountNumber) = 10 )
          => /\ isProcessing'
             /\ timers' = Append(timers, Timer("toEmail", <<>>, StepDelay))
             /\ formType' = "bank"]_vars
    /\ [][( /\ RecipientMounted
            /\ Due # {}
            /\ timers[FirstDue].kind = "toEmail"
            /\ timers' = RemoveAt(timers, FirstDue) )
          => /\ formType' = "email"
             /\ errors' = NoErrors
             /\ isProcessing' = FALSE]_vars
    /\ [][(formType = "bank" /\ formType' = "email")
          => /\ Due # {}
             /\ timers[FirstDue].kind = "toEmail"
             /\ timers' = RemoveAt(timers, FirstDue)]_vars

\* C12 witness: arrived on the email step from a valid bank form.
C12_Witness ==
    /\ RecipientMounted
    /\ formType = "email"
    /\ selectedBank # ""
    /\ Len(accountNumber) = 10
    /\ errors = NoErrors
    /\ ~isProcessing
    /\ timers = <<>>

\* C13: a click on the convert button while a wallet selection is empty sets
\* an error for exactly the empty wallet field(s), leaves isConverting false
\* and schedules no navigation.
C13_EmptyWalletIsRejected ==
    [][( /\ handleConvert
         /\ payFrom = "" \/ payTo = "" )
       => /\ (checkoutErrors'.payFrom # "") <=> (payFrom = "")
          /\ (checkoutErrors'.payTo # "") <=> (payTo = "")
          /\ isConverting' = FALSE
          /\ timers' = timers
          /\ routerCalls' = routerCalls]_vars

\* C13 witness: only the empty "pay from" wallet carries an error.
C13_Witness ==
    /\ HomeMounted
    /\ payFrom = ""
    /\ payTo # ""
    /\ checkoutErrors.payFrom # ""
    /\ checkoutErrors.payTo = ""
    /\ ~isConverting


\* C14: after a click on the convert button with both wallets selected,
\* isConverting is true and stays true, no further convert timer is ever
\* scheduled, the router never receives more than the one call
\* push("/recipient-details"), and when timers run that call is made.
C14_ConvertNavigatesExactlyOnce ==
    /\ [][( /\ handleConvert
            /\ payFrom # ""
            /\ payTo # "" )
          => /\ isConverting'
             /\ timers' = Append(timers, Timer("convert", <<>>, ConvertDelay))]_vars
    /\ [][isConverting
          => /\ isConverting'
             /\ ~( /\ Len(timers') > Len(timers)
                   /\ timers'[Len(timers')].kind = "convert" )]_vars
    /\ [](routerCalls \in {<<>>, <<"/recipient-details">>})
    /\ (isConverting ~> (routerCalls = <<"/recipient-details">>))

\* C14 witness: the conversion was started and the one router call was made.
C14_Witness ==
    /\ isConverting
    /\ payFrom # ""
    /\ payTo # ""
    /\ routerCalls = <<"/recipient-details">>
    /\ mounted = "none"

\* C15: after a click on Next on the email step with a valid email and phone
\* number, isProcessing is true and stays true, the router receives the
\* submission call push("/payment") at most once, and when timers run it
\* receives it.
C15_SubmitNavigatesExactlyOnce ==
    /\ [][( /\ handleNext
            /\ formType = "email"
            /\ validateEmailForm = NoErrors )
          => /\ isProcessing'
             /\ timers' = Append(timers, Timer("submit", <<>>, SubmitDelay))]_vars
    /\ [][(\E i \in 1..Len(timers) : timers[i].kind = "submit")
          => /\ isProcessing'
             /\ ~( /\ Len(timers') > Len(timers)
                   /\ timers'[Len(timers')].kind = "submit" )]_vars
    /\ [](Cardinality({i \in 1..Len(routerCalls) : routerCalls[i] = "/payment"}) <= 1)
    /\ ((\E i \in 1..Len(timers) : timers[i].kind = "submit")
           ~> (\E i \in 1..Len(routerCalls) : routerCalls[i] = "/payment"))

\* C15 witness: the submission call was made from a valid contact form.
C15_Witness ==
    /\ isProcessing
    /\ formType = "email"
    /\ validateEmailForm = NoErrors
    /\ routerCalls = <<"/payment">>
    /\ mounted = "none"

\* C16: when the recompute of an edit whose text does not parse as a decimal
\* completes, it writes the zero conversion into the opposite field: "0.00"
\* into receiveValue after a pay edit, "0.0000" into payValue after a
\* receive edit.
C16_NonNumericAmountIsZero ==
    /\ [][( /\ PayCalcDone
            /\ HomeMounted
            /\ parseFloat(timers[FirstDue].value).nan )
          => receiveValue' = <<"0", ".", "0", "0">>]_vars
    /\ [][( /\ ReceiveCalcDone
            /\ HomeMounted
            /\ parseFloat(timers[FirstDue].value).nan )
          => payValue' = <<"0", ".", "0", "0", "0", "0">>]_vars

\* C17: a click on Next on the bank step schedules the transition to the
\* contact step only when the account number has exactly 10 characters;
\* with a bank selected and 11 or more characters nothing is scheduled.
C17_OnlyTenCharAccountAdvances ==
    [][( /\ handleNext
         /\ formType = "bank"
         /\ selectedBank # "" )
       => ( ( /\ isProcessing'
              /\ timers' = Append(timers, Timer("toEmail", <<>>, StepDelay)) )
            <=> Len(accountNumber) = 10 )]_vars

\* C18: a click on Next on the contact step sets errors.phoneNumber exactly
\* when the digits of the phone number are fewer than 7 or more than 15, and
\* then the step stays the contact step with nothing scheduled.
C18_PhoneDigitsBetween7And15 ==
    [][( /\ handleNext
         /\ formType = "email" )
       => /\ errors'.phoneNumber # "" <=> ~isValidPhone(phoneNumber)
          /\ errors'.phoneNumber # "" =>
                /\ formType' = "email"
                /\ timers' = timers
                /\ isProcessing' = isProcessing]_vars

\* C19: an edit of the account number to a value of 10 characters sets
\* isVerifying, clears accountName and schedules one lookup, whatever the
\* value was before; an edit to a value of any other length clears
\* accountName, leaves isVerifying as it was and schedules nothing.
C19_VerificationTriggerBoundary ==
    [][accountNumber' # accountNumber
       => IF Len(accountNumber') = 10
          THEN /\ isVerifying'
               /\ accountName' = ""
               /\ timers' = Append(timers, Timer("verify", <<>>, VerifyDelay))
          ELSE /\ isVerifying' = isVerifying
               /\ accountName' = ""
               /\ timers' = timers]_vars

\* C19 witness: a lookup has completed and a later edit back to 10
\* characters has restarted verification.
C19_Witness ==
    /\ lookupCompleted
    /\ isVerifying
    /\ Len(accountNumber) = 10
    /\ accountName = ""
    /\ \E i \in 1..Len(timers) : timers[i].kind = "verify"

\* C20: when the recompute of a receive edit with a valid decimal v
\* completes and no other edit intervened, payValue is v divided by the
\* table rate of the selected pair, to 4 decimals.
C20_ReceiveEditUsesTableRate ==
    [][( /\ HomeMounted
         /\ ReceiveCalcDone
         /\ \A j \in 1..Len(timers) :
               timers[j].kind \in {"payCalc", "receiveCalc"} => j = FirstDue
         /\ receiveValue = timers[FirstDue].value
         /\ ~parseFloat(receiveValue).nan )
       => payValue' =
             calculateInverseRate(parseFloat(receiveValue), payCurrency, receiveCurrency)]_vars

(***************************************************************************)
(* Properties of lib/utils.                                                *)
(***************************************************************************)

\* C21: for a currency pair absent from the rate table calculateExchangeRate
\* returns "0.00" for every amount and calculateInverseRate returns the
\* amount itself to 4 decimals; for a pair of the table both use the table
\* rate; the result is always a decimal text.
C21_RateFallback ==
    LET pair    == <<conversion.fromCurrency, conversion.toCurrency>>
        inTable == pair \in DOMAIN EXCHANGE_RATES
    IN  /\ conversion.fn = "calculateExchangeRate" =>
              conversion.result =
                  IF inTable
                  THEN toFixed(Times(conversion.amount, EXCHANGE_RATES[pair]), 2)
                  ELSE <<"0", ".", "0", "0">>
        /\ conversion.fn = "calculateInverseRate" =>
              conversion.result =
                  IF inTable
                  THEN toFixed(DividedBy(conversion.amount, EXCHANGE_RATES[pair]), 4)
                  ELSE toFixed(conversion.amount, 4)
        /\ conversion.fn # "none" => conversion.result # toFixed(NaN, 2)

\* C21 witness: the forward conversion was called on a negative amount and a
\* pair absent from the table.
C21_Witness ==
    /\ <<conversion.fromCurrency, conversion.toCurrency>> \notin DOMAIN EXCHANGE_RATES
    /\ conversion.fn = "calculateExchangeRate"
    /\ conversion.amount.neg
    /\ conversion.result = <<"0", ".", "0", "0">>

(***************************************************************************)
(* Frame properties of the two pages.                                      *)
(***************************************************************************)

\* C22: a change of the pay currency or of the receive currency changes
\* only that currency: the amounts, isCalculating, the wallets and the
\* errors are unchanged and no recompute is scheduled.
C22_CurrencyChangeOnlyChangesCurrency ==
    [][(payCurrency' # payCurrency \/ receiveCurrency' # receiveCurrency)
       => /\ payCurrency' = payCurrency \/ receiveCurrency' = receiveCurrency
          /\ UNCHANGED <<payValue, receiveValue, isCalculating, isConverting,
                         payFrom, payTo, checkoutErrors, timers, routerCalls,
                         mounted>>]_vars

\* C22 witness: both currencies were changed and the amounts are the
\* initial ones, with nothing pending.
C22_Witness ==
    /\ payCurrency # "ETH"
    /\ receiveCurrency # "NGN"
    /\ payValue = Txt_1_00
    /\ receiveValue = Txt_1_00
    /\ ~isCalculating
    /\ timers = <<>>

\* C23: a click on the back button on the contact step sets the step to
\* bank, leaves the bank, account number, account name, email, country and
\* phone number as they were and calls the router not at all; on the bank
\* step it calls router.back() once and changes no form field.
C23_BackKeepsFields ==
    [][BackClick
       => /\ UNCHANGED <<selectedBank, accountNumber, accountName, email,
                         country, phoneNumber>>
          /\ IF formType = "email"
             THEN /\ formType' = "bank"
                  /\ routerCalls' = routerCalls
             ELSE /\ formType' = formType
                  /\ routerCalls' = Append(routerCalls, "back")]_vars

\* C23 witness: the page is back on the bank step with the contact fields
\* filled in and no router call made.
C23_Witness ==
    /\ RecipientMounted
    /\ formType = "bank"
    /\ selectedBank # ""
    /\ Len(accountNumber) = 10
    /\ email = Txt_email_ok
    /\ phoneNumber = Txt_phone_7
    /\ country = "countries[1]"
    /\ routerCalls = <<>>

\* C24: an edit of a field clears the error of that field and leaves the
\* error entries of the other fields as they were; any other change of the
\* errors is made by a click on Next or on the convert button.
C24_EditClearsOwnErrorOnly ==
    /\ [][/\ (\E b \in BankOptions : onBankChange(b))
             => errors' = [errors EXCEPT !.bank = ""]
          /\ (\E v \in AccountInputs : handleAccountNumberChange(v))
             => errors' = [errors EXCEPT !.accountNumber = ""]
          /\ (\E v \in EmailInputs : onEmailChange(v))
             => errors' = [errors EXCEPT !.email = ""]
          /\ (\E v \in PhoneInputs : onChangeNumber(v))
             => errors' = [errors EXCEPT !.phoneNumber = ""]
          /\ (\E w \in WalletOptions : onPayFromChange(w))
             => checkoutErrors' = [checkoutErrors EXCEPT !.payFrom = ""]
          /\ (\E w \in WalletOptions : onPayToChange(w))
             => checkoutErrors' = [checkoutErrors EXCEPT !.payTo = ""]]_vars
    /\ [][/\ errors' # errors
             => \/ handleNext
                \/ \E f \in DOMAIN errors : errors' = [errors EXCEPT ![f] = ""]
          /\ checkoutErrors' # checkoutErrors
             => \/ handleConvert
                \/ \E f \in DOMAIN checkoutErrors :
                      checkoutErrors' = [checkoutErrors EXCEPT ![f] = ""]]_vars

\* C24 witness: after a rejected click on Next the account number was
\* edited: its error is gone although it is still too short, and the error
\* of the bank selector is still shown.
C24_Witness ==
    /\ RecipientMounted
    /\ formType = "bank"
    /\ errors.bank # ""
    /\ errors.accountNumber = ""
    /\ Len(accountNumber) = 9

(***************************************************************************)
(* Progress and interleavings of the recipient form.                       *)
(***************************************************************************)

\* The simulated operations neither fail nor are retried: a lookup callback
\* that runs on the open page always delivers the canned name, every step
\* that ends a verification delivers it, and a callback that runs is
\* removed from the pending ones without a new one being scheduled.
LookupsAlwaysSucceed ==
    /\ [][(isVerifying /\ ~isVerifying') => accountName' = CannedAccountName]_vars
    /\ [][(VerifyDone /\ RecipientMounted)
          => /\ ~isVerifying'
             /\ accountName' = CannedAccountName]_vars
    /\ [][(VerifyDone \/ StepDone \/ SubmitDone)
          => Len(timers') = Len(timers) - 1]_vars

C26_ContactStepHasValidBankDetails ==
    formType = "email" => validateBankForm = NoErrors

\* C27: the submission call push("/payment") is made only while the page is
\* open on the contact step: never after the back button was clicked
\* during the submission delay.
C27_SubmissionOnlyFromContactStep ==
    [][( /\ Len(routerCalls') = Len(routerCalls) + 1
         /\ routerCalls'[Len(routerCalls')] = "/payment" )
       => /\ RecipientMounted
          /\ formType = "email"]_vars

\* C28: when the step changes from bank to contact the account has been
\* verified: accountName is non-empty and isVerifying is false.
C28_ContactStepEnteredVerified ==
    [][(formType = "bank" /\ formType' = "email")
       => /\ accountName # "" /\ accountName' # ""
          /\ ~isVerifying /\ ~isVerifying']_vars

\* C29: a click on the convert button starts the conversion only when
\* isCalculating is false and no amount recompute is pending.
C29_ConvertNotWhileCalculating ==
    [][(~isConverting /\ isConverting')
       => /\ ~isCalculating
          /\ \A i \in 1..Len(timers) :
                timers[i].kind \notin {"payCalc", "receiveCalc"}]_vars

\* C30: on the bank step the bank shown by the selector is the page's
\* selectedBank, also after the way bank -> contact -> back to bank.
C30_BankSelectorShowsSelectedBank ==
    (RecipientMounted /\ formType = "bank") => bankSelected = selectedBank

====
